---- MODULE Spec2Model ----
(***************************************************************************)
(* Model of complete-cardiomyocyte-app.py: the characteristic table, the   *)
(* interpolation between anchor days, generate_frame (set-up, connection   *)
(* pass, cell loop, debris count), and the Streamlit script (preview       *)
(* cache, Generate and Regenerate buttons, the GIF written to disk).       *)
(*                                                                         *)
(* Numbers.  The code computes on Python floats, and so does the model: a  *)
(* day, a time point and every numeric field of a characteristic record    *)
(* is an IEEE 754 double, and +, -, *, / round as the hardware does.       *)
(* Colour channels and counts are integers.                                *)
(***************************************************************************)
EXTENDS Integers, Sequences, FiniteSets, TLC

VARIABLES
    day_float,          \* interpolate_characteristics: its argument
    characteristics,    \* the record interpolation returned / generate_frame's argument
    pc,                 \* position inside interpolate_characteristics / generate_frame
    reduced_cell_count, \* generate_frame local
    cluster_centers,    \* generate_frame local
    pair_index,         \* generate_frame: position of the (i, j) loops of the connection pass
    lines_drawn,        \* generate_frame: connection lines drawn on the canvas
    cells_drawn,        \* generate_frame local
    clusters_used,      \* generate_frame local
    batches,            \* generate_frame: iterations of the while loop so far
    cluster,            \* generate_frame: the centre (cluster_x, cluster_y) selected
    cells_in_cluster,   \* generate_frame local
    batch_index,        \* generate_frame: iterations of the for loop done in this batch
    cell,               \* generate_frame: what has been drawn of the current cell
    debris_count,       \* generate_frame local
    animation_speed,    \* widget: select_slider "Animation Speed"
    day_selection,      \* widget: radio "Day Range to Show"
    preview_day,        \* widget: slider "Preview Day"
    video_generated,    \* st.session_state.video_generated
    video_path,         \* st.session_state.video_path
    preview_cache,      \* st.session_state.preview_cache
    gif_file,           \* the file cardiomyocyte_animation.gif on disk
    run,                \* what the last script run did (its locals and what it showed)
    runs                \* number of script runs so far in the session

vars == << day_float, characteristics, pc, reduced_cell_count, cluster_centers,
           pair_index, lines_drawn, cells_drawn, clusters_used, batches, cluster,
           cells_in_cluster, batch_index, cell, debris_count, animation_speed,
           day_selection, preview_day, video_generated, video_path, preview_cache,
           gif_file, run, runs >>

frame_vars == << day_float, characteristics, pc, reduced_cell_count,
                 cluster_centers, pair_index, lines_drawn, cells_drawn,
                 clusters_used, batches, cluster, cells_in_cluster, batch_index,
                 cell, debris_count >>

cell_vars == << cells_drawn, clusters_used, batches, cluster, cells_in_cluster,
                batch_index, cell, debris_count >>

session_vars == << animation_speed, day_selection, preview_day, video_generated,
                   video_path, preview_cache, gif_file, run, runs >>

(***************************************************************************)
(* Bounds of the model.                                                    *)
(***************************************************************************)
\* Days tried by interpolate_characteristics are k / DayGrid.
DayGrid == 20
\* The largest day tried.
MaxDay == 10
\* Field values tried by generate_frame are k / FieldGrid, k in 0..FieldGrid.
FieldGrid == 10
\* cell_count values tried by the cell loop are 0..MaxCellCount.
MaxCellCount == 20
\* Script runs in one session.
MaxRuns == 3

(***************************************************************************)
(* Natural numbers of any size.  TLC's integers are 32 bits wide and the   *)
(* significand of a double has 53, so a natural number is a sequence of    *)
(* limbs, least significant first, each in 0..Limb-1, without a zero limb  *)
(* at the top; << >> is 0.  The operations are functions, whose arguments  *)
(* TLC evaluates once, before the application.                             *)
(***************************************************************************)
LimbBits == 13

Limb == 2^LimbBits

\* The sequences of limbs.
BigNats == Seq(Nat)

Min(a, b) == IF a <= b THEN a ELSE b

Max(a, b) == IF a >= b THEN a ELSE b

BigStrip[a \in BigNats] ==
    IF a = << >> THEN a
    ELSE IF a[Len(a)] = 0 THEN BigStrip[SubSeq(a, 1, Len(a) - 1)]
    ELSE a

\* Columns of any integers, of a non-negative total, brought into 0..Limb-1.
BigCarry[cols \in Seq(Int), carry \in Int] ==
    IF cols = << >>
    THEN IF carry = 0 THEN << >> ELSE << carry % Limb >> \o BigCarry[cols, carry \div Limb]
    ELSE LET t == cols[1] + carry
         IN  << t % Limb >> \o BigCarry[Tail(cols), t \div Limb]

BigNat[cols \in Seq(Int)] == BigStrip[BigCarry[cols, 0]]

BigLimb[a \in BigNats, i \in Int] == IF i \in 1..Len(a) THEN a[i] ELSE 0

BigFromInt[n \in Int] == BigNat[<< n >>]

BigToInt[a \in BigNats] == IF a = << >> THEN 0 ELSE a[1] + Limb * BigToInt[Tail(a)]

BigColumn[a \in BigNats, b \in BigNats, k \in Int, i \in Int] ==
    IF i > Len(a) THEN 0
    ELSE a[i] * BigLimb[b, k - i + 1] + BigColumn[a, b, k, i + 1]

\* a * b, for factors of at most 5 limbs.
BigMul[a \in BigNats, b \in BigNats] ==
    IF a = << >> \/ b = << >> THEN << >>
    ELSE BigNat[[k \in 1..(Len(a) + Len(b) - 1) |-> BigColumn[a, b, k, 1]]]

\* -1, 0 or 1 as a < b, a = b or a > b.
BigCmpFrom[a \in BigNats, b \in BigNats, i \in Int] ==
    IF i = 0 THEN 0
    ELSE IF a[i] < b[i] THEN -1
    ELSE IF a[i] > b[i] THEN 1
    ELSE BigCmpFrom[a, b, i - 1]

BigCmp[a \in BigNats, b \in BigNats] ==
    IF Len(a) < Len(b) THEN -1
    ELSE IF Len(a) > Len(b) THEN 1
    ELSE BigCmpFrom[a, b, Len(a)]

\* a * 2^k and floor(a / 2^k).
BigShl[a \in BigNats, k \in Int] ==
    LET q == k \div LimbBits
        r == k % LimbBits
    IN  BigNat[[i \in 1..(Len(a) + q) |-> IF i <= q THEN 0 ELSE a[i - q] * 2^r]]

BigShr[a \in BigNats, k \in Int] ==
    LET q == k \div LimbBits
        r == k % LimbBits
    IN  BigNat[[i \in 1..Max(Len(a) - q, 0) |->
                    (a[i + q] \div 2^r) + (BigLimb[a, i + q + 1] % 2^r) * 2^(LimbBits - r)]]

\* The k lowest bits of a are all 0.
BigLowZero[a \in BigNats, k \in Int] ==
    /\ \A i \in 1..Min(k \div LimbBits, Len(a)) : a[i] = 0
    /\ BigLimb[a, (k \div LimbBits) + 1] % 2^(k % LimbBits) = 0

BigOdd[a \in BigNats] == a # << >> /\ a[1] % 2 = 1

\* Bit k of a, bit 0 being the lowest.
BigBit[a \in BigNats, k \in Int] ==
    (BigLimb[a, (k \div LimbBits) + 1] \div 2^(k % LimbBits)) % 2 = 1

\* The number of bits of a, and the number of 0 bits at its low end (a > 0).
BigBitLen[a \in BigNats] ==
    IF a = << >> THEN 0
    ELSE LimbBits * (Len(a) - 1)
           + (CHOOSE k \in 1..LimbBits : 2^(k - 1) <= a[Len(a)] /\ a[Len(a)] < 2^k)

BigTrailingZeros[a \in BigNats] ==
    IF a[1] = 0 THEN LimbBits + BigTrailingZeros[Tail(a)]
    ELSE CHOOSE k \in 0..(LimbBits - 1) : a[1] % 2^k = 0 /\ a[1] % 2^(k + 1) # 0

\* floor(a / d) and a mod d for 0 < d < Limb: the limbs from position i down,
\* rem being what the limbs above left over.
BigDivFrom[a \in BigNats, d \in Int, i \in Int, rem \in Int] ==
    IF i = 0 THEN [q |-> << >>, r |-> rem]
    ELSE LET t    == rem * Limb + a[i]
             rest == BigDivFrom[a, d, i - 1, t % d]
         IN  [q |-> rest.q \o << t \div d >>, r |-> rest.r]

\* A quotient and its remainder.
Quotients == [q : BigNats, r : Int]

BigDivSmall[a \in BigNats, d \in Int] == [BigDivFrom[a, d, Len(a), 0] EXCEPT !.q = BigStrip[@]]

(***************************************************************************)
(* Python floats: IEEE 754 doubles, rounding to nearest, ties to even.     *)
(* A double is [s |-> sign, m |-> significand, e |-> exponent], of value   *)
(* s * m * 2^e, with m an odd natural number of at most 53 bits; 0.0 is    *)
(* [s |-> 1, m |-> << >>, e |-> 0].  The values of the program are far     *)
(* from the subnormal and the overflow range, which are not modelled, and  *)
(* so is the sign of a zero, which no branch of the code reads.            *)
(***************************************************************************)
Precision == 53

Doubles == [s : {1, -1}, m : BigNats, e : Int]

FZero == [s |-> 1, m |-> << >>, e |-> 0]

\* The double of value s * n * 2^e, n of at most 53 significant bits.
FDyadic[s \in Int, n \in BigNats, e \in Int] ==
    IF n = << >> THEN FZero
    ELSE LET z == BigTrailingZeros[n]
         IN  [s |-> s, m |-> BigShr[n, z], e |-> e + z]

\* q + 1/2 + t or q + t, as guard says, to the nearest natural number, a tie
\* going to the even one; rest says that t > 0.
BigNearest[q \in BigNats, guard \in BOOLEAN, rest \in BOOLEAN] ==
    IF guard /\ (rest \/ BigOdd[q])
    THEN BigNat[[i \in 1..Max(Len(q), 1) |-> BigLimb[q, i] + (IF i = 1 THEN 1 ELSE 0)]]
    ELSE q

\* The double nearest to s * (n + t) * 2^e, where 0 <= t < 1 and t > 0 iff
\* sticky; n has more than 53 bits when sticky.
FRoundBits[s \in Int, n \in BigNats, e \in Int, sticky \in BOOLEAN, k \in Int] ==
    FDyadic[s, IF k = 0 THEN n
               ELSE BigNearest[BigShr[n, k], BigBit[n, k - 1],
                               sticky \/ ~ BigLowZero[n, k - 1]],
            e + k]

FRound[s \in Int, n \in BigNats, e \in Int, sticky \in BOOLEAN] ==
    FRoundBits[s, n, e, sticky, Max(BigBitLen[n] - Precision, 0)]

\* float(n) for an integer n.
FInt[n \in Int] == FDyadic[IF n >= 0 THEN 1 ELSE -1, BigFromInt[IF n >= 0 THEN n ELSE -n], 0]

FNeg[x \in Doubles] == IF x = FZero THEN x ELSE [x EXCEPT !.s = -x.s]

\* The doubles of significands a and b, signs s and t and exponent e, added:
\* c is BigCmp[a, b].
FAddAligned[s \in Int, a \in BigNats, t \in Int, b \in BigNats, e \in Int, c \in Int] ==
    FRound[IF c >= 0 THEN s ELSE t,
           BigNat[[i \in 1..Max(Len(a), Len(b)) |->
                       IF s = t THEN BigLimb[a, i] + BigLimb[b, i]
                       ELSE IF c >= 0 THEN BigLimb[a, i] - BigLimb[b, i]
                       ELSE BigLimb[b, i] - BigLimb[a, i]]],
           e, FALSE]

FAddShifted[s \in Int, a \in BigNats, t \in Int, b \in BigNats, e \in Int] ==
    FAddAligned[s, a, t, b, e, BigCmp[a, b]]

\* x + y, x - y, x * y
FAdd[x \in Doubles, y \in Doubles] ==
    FAddShifted[x.s, BigShl[x.m, x.e - Min(x.e, y.e)],
                y.s, BigShl[y.m, y.e - Min(x.e, y.e)], Min(x.e, y.e)]

FSub[x \in Doubles, y \in Doubles] == FAdd[x, FNeg[y]]

FMul[x \in Doubles, y \in Doubles] == FRound[x.s * y.s, BigMul[x.m, y.m], x.e + y.e, FALSE]

\* x / d for an integer 0 < d < Limb.
FQuotient[s \in Int, res \in Quotients, e \in Int] == FRound[s, res.q, e, res.r # 0]

FDivInt[x \in Doubles, d \in Int] ==
    FQuotient[x.s, BigDivSmall[BigShl[x.m, Precision + 2 * LimbBits], d],
              x.e - (Precision + 2 * LimbBits)]

\* The double a literal n / d denotes: the nearest to it.
FLit[n \in Int, d \in Int] == FDivInt[FInt[n], d]

\* -1, 0 or 1 as x < y, x = y or x > y.
FCmp[x \in Doubles, y \in Doubles] ==
    IF x.s # y.s THEN x.s
    ELSE x.s * BigCmp[BigShl[x.m, x.e - Min(x.e, y.e)], BigShl[y.m, y.e - Min(x.e, y.e)]]

FLess[x \in Doubles, y \in Doubles] == FCmp[x, y] < 0

FLeq[x \in Doubles, y \in Doubles] == FCmp[x, y] <= 0

\* The largest double below x, for x > 0: one unit in the last place of the
\* 53 bits down (of 54 bits when x is a power of 2).
FBeforeShifted[x \in Doubles, k \in Int] ==
    FDyadic[1, BigNat[[i \in 1..Len(BigShl[x.m, k]) |->
                          BigShl[x.m, k][i] - (IF i = 1 THEN 1 ELSE 0)]], x.e - k]

FBefore[x \in Doubles] ==
    FBeforeShifted[x, IF x.m = << 1 >> THEN Precision ELSE Precision - BigBitLen[x.m]]

\* int(x): truncation toward zero.
FTrunc[x \in Doubles] ==
    IF x.e >= 0 THEN x.s * BigToInt[BigShl[x.m, x.e]]
    ELSE x.s * BigToInt[BigShr[x.m, -x.e]]

\* round(x): to the nearest integer, a tie going to the even one.
FNearest[x \in Doubles, t \in Int, half \in Int] ==
    IF half < 0 THEN t
    ELSE IF half > 0 THEN t + x.s
    ELSE IF t % 2 = 0 THEN t ELSE t + x.s

\* half compares the fractional part of |x| with 0.5.
FRoundFrom[x \in Doubles, t \in Int] ==
    FNearest[x, t, x.s * FCmp[FSub[x, FInt[t]], [s |-> x.s, m |-> << 1 >>, e |-> -1]]]

FRoundInt[x \in Doubles] == FRoundFrom[x, FTrunc[x]]

(***************************************************************************)
(* The characteristic table: one anchor record per integer day.  A literal *)
(* such as 0.65 is the double nearest to 65 / 100.                         *)
(***************************************************************************)
Hundredths(n) == FLit[n, 100]

\* The literals of the table; a float literal is written in hundredths
\* (0.65 as 65) and cell_count, an int, as it is.
cell_literals == <<
    [ title |-> "Immature Stage", shape |-> "round",
      elongation |-> 100, alignment |-> 10,
      connection |-> 10, sarcomere_organization |-> 10,
      beating_strength |-> 10, beating_sync |-> 10,
      color_base |-> << 255, 214, 204 >>, nucleus_size |-> 70,
      debris_level |-> 10, cell_count |-> 8,
      cell_clustering |-> 10 ],
    [ title |-> "Initial Beating", shape |-> "slightly_elongated",
      elongation |-> 120, alignment |-> 20,
      connection |-> 20, sarcomere_organization |-> 20,
      beating_strength |-> 30, beating_sync |-> 20,
      color_base |-> << 255, 204, 204 >>, nucleus_size |-> 65,
      debris_level |-> 10, cell_count |-> 12,
      cell_clustering |-> 30 ],
    [ title |-> "Mean Beating Begins", shape |-> "elongated",
      elongation |-> 150, alignment |-> 40,
      connection |-> 30, sarcomere_organization |-> 40,
      beating_strength |-> 50, beating_sync |-> 40,
      color_base |-> << 255, 194, 194 >>, nucleus_size |-> 50,
      debris_level |-> 20, cell_count |-> 16,
      cell_clustering |-> 50 ],
    [ title |-> "Stronger Contractions", shape |-> "well_elongated",
      elongation |-> 180, alignment |-> 60,
      connection |-> 50, sarcomere_organization |-> 60,
      beating_strength |-> 70, beating_sync |-> 60,
      color_base |-> << 255, 153, 153 >>, nucleus_size |-> 45,
      debris_level |-> 20, cell_count |-> 20,
      cell_clustering |-> 70 ],
    [ title |-> "Moderate Synchronization", shape |-> "fully_elongated",
      elongation |-> 200, alignment |-> 80,
      connection |-> 70, sarcomere_organization |-> 80,
      beating_strength |-> 85, beating_sync |-> 80,
      color_base |-> << 255, 102, 102 >>, nucleus_size |-> 40,
      debris_level |-> 30, cell_count |-> 24,
      cell_clustering |-> 80 ],
    [ title |-> "Peak Contraction Activity", shape |-> "fully_elongated",
      elongation |-> 220, alignment |-> 90,
      connection |-> 90, sarcomere_organization |-> 90,
      beating_strength |-> 100, beating_sync |-> 90,
      color_base |-> << 255, 51, 51 >>, nucleus_size |-> 40,
      debris_level |-> 40, cell_count |-> 28,
      cell_clustering |-> 90 ],
    [ title |-> "Damage & Fragmentation Begins", shape |-> "fragmenting",
      elongation |-> 160, alignment |-> 50,
      connection |-> 60, sarcomere_organization |-> 50,
      beating_strength |-> 60, beating_sync |-> 50,
      color_base |-> << 204, 51, 51 >>, nucleus_size |-> 30,
      debris_level |-> 70, cell_count |-> 20,
      cell_clustering |-> 60 ],
    [ title |-> "Significant Cell Damage", shape |-> "fragmented",
      elongation |-> 120, alignment |-> 20,
      connection |-> 20, sarcomere_organization |-> 10,
      beating_strength |-> 20, beating_sync |-> 10,
      color_base |-> << 153, 51, 51 >>, nucleus_size |-> 25,
      debris_level |-> 90, cell_count |-> 12,
      cell_clustering |-> 20 ] >>

\* The keys of a record that are interpolated as numbers.
NumericKeys ==
    { "elongation", "alignment", "connection", "sarcomere_organization",
      "beating_strength", "beating_sync", "nucleus_size", "debris_level",
      "cell_count", "cell_clustering" }

\* One record of the table, its float literals converted to doubles.
Anchor(literals) ==
    [ title |-> literals.title, shape |-> literals.shape,
      elongation |-> Hundredths(literals.elongation),
      alignment |-> Hundredths(literals.alignment),
      connection |-> Hundredths(literals.connection),
      sarcomere_organization |-> Hundredths(literals.sarcomere_organization),
      beating_strength |-> Hundredths(literals.beating_strength),
      beating_sync |-> Hundredths(literals.beating_sync),
      color_base |-> literals.color_base,
      nucleus_size |-> Hundredths(literals.nucleus_size),
      debris_level |-> Hundredths(literals.debris_level),
      cell_count |-> FInt[literals.cell_count],
      cell_clustering |-> Hundredths(literals.cell_clustering) ]

cell_characteristics == [ day \in DOMAIN cell_literals |-> Anchor(cell_literals[day]) ]

\* The last anchor day.
LastDay == 8

(***************************************************************************)
(* interpolate_characteristics                                             *)
(***************************************************************************)
\* What a dictionary lookup with a missing key raises.
KeyError == [error |-> "KeyError"]

\* title and shape: taken from the lower anchor.
CategoricalFromUpper(day_lower, day_upper, key) == cell_characteristics[day_upper][key]

Categorical(day_lower, day_upper, key) == cell_characteristics[day_lower][key]

\* val1 + (val2 - val1) * fraction
LerpFromUpper(val1, val2, fraction) == FAdd[val2, FMul[FSub[val2, val1], fraction]]

Lerp(val1, val2, fraction) == FAdd[val1, FMul[FSub[val2, val1], fraction]]

\* c1 + (c2 - c1) * fraction for one colour channel, and its int().
ColorValue(c1, c2, fraction) == FAdd[FInt[c1], FMul[FInt[c2 - c1], fraction]]

ColorChannel(c1, c2, fraction) == FTrunc[ColorValue(c1, c2, fraction)]

interpolate_characteristics(day) ==
    LET day_lower == FTrunc[day]
        day_upper == Min(LastDay, day_lower + 1)
        fraction  == FSub[day, FInt[day_lower]]
    IN  IF day_lower = LastDay THEN cell_characteristics[LastDay]
        ELSE IF day_lower \notin DOMAIN cell_characteristics THEN KeyError
        ELSE LET lower == cell_characteristics[day_lower]
                 upper == cell_characteristics[day_upper]
             IN  [ key \in DOMAIN lower |->
                     IF key \in {"title", "shape"}
                       THEN Categorical(day_lower, day_upper, key)
                     ELSE IF key = "color_base"
                       THEN [ c \in 1..3 |->
                                ColorChannel(lower[key][c], upper[key][c], fraction) ]
                     ELSE Lerp(lower[key], upper[key], fraction) ]

(***************************************************************************)
(* generate_frame.                                                         *)
(* A cluster centre is a random point of the canvas; no branch of the code *)
(* reads the coordinates, so a centre is modelled by its index in the      *)
(* list.  The beat pulse (a sine) only scales the drawn sizes and is not   *)
(* modelled; nor are the positions, sizes and colours of what is drawn.    *)
(* np.random.random() returns a double r with 0 <= r < 1, and the code     *)
(* uses each draw in one comparison only: a draw is modelled by the        *)
(* outcomes that comparison can have.                                      *)
(***************************************************************************)
\* The cap on the number of cells drawn in one frame.
MaxCells == 15

\* The fewest and the most cluster centres.
MinClusters == 2

MaxClusters == 3

\* The float literals of generate_frame: 0.3, 0.4, 0.5, 0.6, 0.7 and 0.8.
Tenths == [n \in 0..10 |-> FLit[n, 10]]

\* reduced_cell_count = min(int(cell_count * 0.8), 15)
ReducedCellCountRounded(c) == Min(FRoundInt[FMul[c.cell_count, Tenths[8]]], MaxCells)

ReducedCellCount(c) == Min(FTrunc[FMul[c.cell_count, Tenths[8]]], MaxCells)

\* num_clusters = min(3, max(2, int(cell_clustering * 3)))
NumClustersNoFloor(c) == Min(MaxClusters, FTrunc[FMul[c.cell_clustering, FInt[3]]])

NumClusters(c) ==
    Min(MaxClusters, Max(MinClusters, FTrunc[FMul[c.cell_clustering, FInt[3]]]))

\* characteristics["connection"] > 0.4
ConnectionsAlwaysAttempted(c) == TRUE

ConnectionsAttempted(c) == FLess[Tenths[4], c.connection]

\* The largest double below 1: the largest value np.random.random() returns.
LargestDraw == FBefore[FInt[1]]

\* What np.random.random() < value can give: True if some draw is below value,
\* False if some draw is not.
RandomBelow(value) ==
    { below \in BOOLEAN : IF below THEN FLess[FZero, value] ELSE FLeq[value, LargestDraw] }

\* What np.random.random() > value can give.
RandomAbove(value) ==
    { above \in BOOLEAN : IF above THEN FLess[value, LargestDraw] ELSE FLeq[FZero, value] }

\* The pairs (i, j) in the order of: for i in range(n): for j in range(i+1, n).
ClusterPairs(n) ==
    IF n = 2 THEN << <<1, 2>> >>
    ELSE IF n = 3 THEN << <<1, 2>>, <<1, 3>>, <<2, 3>> >>
    ELSE << >>

\* The argument of a call that has not been made.
NoDay == FZero

NoRecord == [error |-> "none"]

\* No sarcomere line, no cell.
NoLine == [form |-> "none", segments |-> {}]

NoCell == [kind |-> "none", swapped |-> FALSE, lines |-> 0, line |-> NoLine,
           nucleus |-> FALSE]

\* The locals of the cell loop before generate_frame assigns them.
CellIdle ==
    /\ cells_drawn = 0
    /\ clusters_used = 0
    /\ batches = 0
    /\ cluster = 0
    /\ cells_in_cluster = 0
    /\ batch_index = 0
    /\ cell = NoCell
    /\ debris_count = 0

FrameIdle ==
    /\ day_float = NoDay
    /\ characteristics = NoRecord
    /\ pc = "idle"
    /\ reduced_cell_count = 0
    /\ cluster_centers = << >>
    /\ pair_index = 0
    /\ lines_drawn = {}
    /\ CellIdle

\* interpolate_characteristics(day_float), called as generate_frame's callers do.
Interpolate ==
    /\ pc = "interpolate"
    /\ characteristics' = interpolate_characteristics(day_float)
    /\ pc' = IF characteristics' = KeyError THEN "raised" ELSE "setup"
    /\ UNCHANGED << day_float, reduced_cell_count, cluster_centers, pair_index,
                    lines_drawn >>
    /\ UNCHANGED cell_vars
    /\ UNCHANGED session_vars

\* generate_frame up to the test of the connection threshold; cells_drawn and
\* clusters_used, which the connection pass does not read, are zeroed here.
FrameSetup ==
    /\ pc = "setup"
    /\ reduced_cell_count' = ReducedCellCount(characteristics)
    /\ cluster_centers' = [i \in 1..NumClusters(characteristics) |-> i]
    /\ pair_index' = 1
    /\ lines_drawn' = {}
    /\ pc' = IF ConnectionsAttempted(characteristics)
               /\ ClusterPairs(Len(cluster_centers')) # << >>
             THEN "connections" ELSE "cells"
    /\ cells_drawn' = 0
    /\ clusters_used' = 0
    /\ batches' = 0
    /\ UNCHANGED << day_float, characteristics, cluster, cells_in_cluster,
                    batch_index, cell, debris_count >>
    /\ UNCHANGED session_vars

\* One iteration of the (i, j) loops: a line is drawn if the draw is below connection.
DrawConnection ==
    /\ pc = "connections"
    /\ \E below \in RandomBelow(characteristics.connection) :
         LET pairs == ClusterPairs(Len(cluster_centers))
         IN  /\ lines_drawn' = IF below THEN lines_drawn \cup {pairs[pair_index]}
                               ELSE lines_drawn
             /\ pair_index' = pair_index + 1
             /\ pc' = IF pair_index = Len(pairs) THEN "cells" ELSE "connections"
    /\ UNCHANGED << day_float, characteristics, reduced_cell_count, cluster_centers >>
    /\ UNCHANGED cell_vars
    /\ UNCHANGED session_vars

(***************************************************************************)
(* generate_frame: the cell loop.  One action is one step of the loop: the *)
(* head of the while loop, the body of a cell, one sarcomere line, the     *)
(* nucleus, and the code after the loop.  cell records what has been drawn *)
(* of the current cell: a body or fragments, whether width and height were *)
(* swapped, how many sarcomere lines were rendered and the last of them,   *)
(* and whether the nucleus was drawn.                                      *)
(***************************************************************************)
\* The most cells of one batch.
MaxBatch == 5

\* num_fragments, num_lines, segments
num_fragments == 3

num_lines == 3

segments == 2

ElongatedShapes == {"slightly_elongated", "elongated", "well_elongated", "fully_elongated"}

\* cells_in_cluster = min(5, reduced_cell_count - cells_drawn)
CellsInClusterUncapped(target, drawn) == MaxBatch

CellsInCluster(target, drawn) == Min(MaxBatch, target - drawn)

\* characteristics["debris_level"] > 0.5
DebrisHigh(c) == FLess[Tenths[5], c.debris_level]

\* characteristics["sarcomere_organization"] > 0.3
SarcomereDrawn(c) == FLess[Tenths[3], c.sarcomere_organization]

\* characteristics["sarcomere_organization"] < 0.5
SarcomereDamagedAlways(c) == TRUE

SarcomereDamaged(c) == FLess[c.sarcomere_organization, Tenths[5]]

\* One sarcomere line: broken if the cell is damaged and the draw is above 0.5
\* (above), and then segment s is drawn if its own draw is below 0.7 (seg[s]).
SarcomereRendering(c, above, seg) ==
    IF SarcomereDamaged(c) /\ above
    THEN [form |-> "broken", segments |-> {s \in 0..(segments - 1) : seg[s]}]
    ELSE [form |-> "continuous", segments |-> {}]

\* debris_count = int(debris_level * 80)
DebrisCount(c) == FTrunc[FMul[c.debris_level, FInt[80]]]

\* Where the for loop goes after iteration number done of the batch.
AfterCell(done) == IF done < cells_in_cluster THEN "cell" ELSE "cells"

\* The head of the while loop, entered: the next unused centre, or a random one
\* once every centre has been used, and the size of the batch.
SelectCluster ==
    /\ pc = "cells"
    /\ cells_drawn < reduced_cell_count
    /\ IF clusters_used < Len(cluster_centers)
       THEN /\ cluster' = cluster_centers[clusters_used + 1]
            /\ clusters_used' = clusters_used + 1
       ELSE /\ \E cluster_index \in 1..Len(cluster_centers) :
                   cluster' = cluster_centers[cluster_index]
            /\ clusters_used' = clusters_used
    /\ cells_in_cluster' = CellsInCluster(reduced_cell_count, cells_drawn)
    /\ batch_index' = 0
    /\ batches' = batches + 1
    /\ pc' = IF cells_in_cluster' > 0 THEN "cell" ELSE "cells"
    /\ UNCHANGED << day_float, characteristics, reduced_cell_count, cluster_centers,
                    pair_index, lines_drawn, cells_drawn, cell, debris_count >>
    /\ UNCHANGED session_vars

\* One iteration of the for loop up to the ellipse of the cell body, or the
\* whole iteration when fragments are drawn instead of the cell.
DrawCell ==
    /\ pc = "cell"
    /\ LET c == characteristics
           body(swap) == [kind |-> "body", swapped |-> swap, lines |-> 0,
                          line |-> NoLine, nucleus |-> FALSE]
           whole(swap) ==
               /\ cell' = body(swap)
               /\ pc' = IF SarcomereDrawn(c) THEN "sarcomere" ELSE "nucleus"
               /\ UNCHANGED << cells_drawn, batch_index >>
       IN  IF c.shape = "round"
           THEN whole(FALSE)
           ELSE IF c.shape \in ElongatedShapes
           THEN \E below \in RandomBelow(c.alignment) : whole(below)
           ELSE \E below \in RandomBelow(Tenths[6]) :
                  IF below /\ DebrisHigh(c)
                  THEN /\ cell' = [kind |-> "fragments", swapped |-> FALSE,
                                   lines |-> 0, line |-> NoLine, nucleus |-> FALSE]
                       /\ cells_drawn' = cells_drawn + 1
                       /\ batch_index' = batch_index + 1
                       /\ pc' = AfterCell(batch_index')
                  ELSE whole(FALSE)
    /\ UNCHANGED << day_float, characteristics, reduced_cell_count, cluster_centers,
                    pair_index, lines_drawn, clusters_used, batches, cluster,
                    cells_in_cluster, debris_count >>
    /\ UNCHANGED session_vars

\* One iteration of: for i in range(num_lines).
DrawSarcomereLine ==
    /\ pc = "sarcomere"
    /\ \E above \in RandomAbove(Tenths[5]) :
       \E seg \in [0..(segments - 1) -> RandomBelow(Tenths[7])] :
           cell' = [cell EXCEPT !.lines = cell.lines + 1,
                                !.line = SarcomereRendering(characteristics, above, seg)]
    /\ pc' = IF cell'.lines = num_lines THEN "nucleus" ELSE "sarcomere"
    /\ UNCHANGED << day_float, characteristics, reduced_cell_count, cluster_centers,
                    pair_index, lines_drawn, cells_drawn, clusters_used, batches,
                    cluster, cells_in_cluster, batch_index, debris_count >>
    /\ UNCHANGED session_vars

\* The end of an iteration of the for loop: the nucleus, drawn if the draw is
\* below 0.8, and cells_drawn += 1.
DrawNucleus ==
    /\ pc = "nucleus"
    /\ \E below \in RandomBelow(Tenths[8]) :
           cell' = [cell EXCEPT !.nucleus = below]
    /\ cells_drawn' = cells_drawn + 1
    /\ batch_index' = batch_index + 1
    /\ pc' = AfterCell(batch_index')
    /\ UNCHANGED << day_float, characteristics, reduced_cell_count, cluster_centers,
                    pair_index, lines_drawn, clusters_used, batches, cluster,
                    cells_in_cluster, debris_count >>
    /\ UNCHANGED session_vars

\* The head of the while loop, left, and the debris count computed after it.
DrawDebris ==
    /\ pc = "cells"
    /\ ~ (cells_drawn < reduced_cell_count)
    /\ debris_count' = DebrisCount(characteristics)
    /\ pc' = "done"
    /\ UNCHANGED << day_float, characteristics, reduced_cell_count, cluster_centers,
                    pair_index, lines_drawn, cells_drawn, clusters_used, batches,
                    cluster, cells_in_cluster, batch_index, cell >>
    /\ UNCHANGED session_vars

(***************************************************************************)
(* The Streamlit script.  One action is one script run: the run a user     *)
(* interaction triggers, or the run st.rerun() starts.                     *)
(* interpolate_characteristics and generate_frame are memoised on their    *)
(* arguments (st.cache_data), so a frame is identified by the              *)
(* characteristics and the time point it was composed for.                 *)
(***************************************************************************)
Speeds == {"Slow", "Medium", "Fast"}

duration_map == [Slow |-> 500, Medium |-> 250, Fast |-> 125]

Selections == {"All Days (1-8)", "Early (1-3)", "Middle (3-6)", "Late (6-8)"}

day_range_map ==
    ("All Days (1-8)" :> << FInt[1], FInt[8] >>) @@ ("Early (1-3)" :> << FInt[1], FInt[3] >>) @@
    ("Middle (3-6)" :> << FInt[3], FInt[6] >>) @@ ("Late (6-8)" :> << FInt[6], FInt[8] >>)

gif_path == "cardiomyocyte_animation.gif"

None == "None"

\* The values the "Preview Day" slider offers (step 0.5) and the one it starts at.
SliderValues(selection) ==
    { FLit[k, 2] : k \in (2 * FTrunc[day_range_map[selection][1]])
                            ..(2 * FTrunc[day_range_map[selection][2]]) }

SliderDefault(selection) ==
    FDivInt[FAdd[day_range_map[selection][1], day_range_map[selection][2]], 2]

\* day_key = round(preview_day * 2) / 2
day_key(day) == FDivInt[FInt[FRoundInt[FMul[day, FInt[2]]]], 2]

\* time_point = (day - 1) * (60 / 7)
time_point(day) == FMul[FSub[day, FInt[1]], FDivInt[FInt[60], 7]]

\* The image generate_frame returns for these arguments.
generate_frame(chars, time) == [characteristics |-> chars, time_point |-> time]

\* The number of keyframes of a generate request.
total_keyframes_rounded(min_day, max_day) ==
    IF FLeq[FSub[max_day, min_day], FInt[2]] THEN 12
    ELSE FRoundInt[FDivInt[FMul[FInt[16], FSub[max_day, min_day]], 7]]

total_keyframes(min_day, max_day) ==
    IF FLeq[FSub[max_day, min_day], FInt[2]] THEN 12
    ELSE FTrunc[FDivInt[FMul[FInt[16], FSub[max_day, min_day]], 7]]

\* np.linspace(start, stop, num), num >= 1: num evenly spaced days, computed as
\* numpy does: step = (stop - start) / (num - 1), the sample of index i is
\* i * step + start, and the last sample is stop itself.
linspace(start, stop, num) ==
    [i \in 1..num |->
        IF num > 1 /\ i = num THEN stop
        ELSE IF num = 1 THEN start
        ELSE FAdd[FMul[FInt[i - 1], FDivInt[FSub[stop, start], num - 1]], start]]

\* The most keyframes a request asks for.
MaxKeyframes == 16

\* The days the script can ask a frame for, and the memo of st.cache_data on
\* them: np.linspace for each range and count, and the frame of each day.
day_positions_memo ==
    [selection \in Selections |->
        [num \in 1..MaxKeyframes |->
            linspace(day_range_map[selection][1], day_range_map[selection][2], num)]]

ScriptDays ==
    UNION {SliderValues(selection) : selection \in Selections}
        \cup UNION { {day_positions_memo[selection][num][i] : i \in 1..num} :
                       selection \in Selections, num \in 1..MaxKeyframes }

frame_memo ==
    [day \in ScriptDays |->
        generate_frame(interpolate_characteristics(day), time_point(day))]

\* The preview: a cached frame is reused, a missing one is composed and stored.
Composed(cache, key, frame) ==
    [ cache  |-> [k \in DOMAIN cache \cup {key} |-> IF k = key THEN frame ELSE cache[k]],
      frame  |-> frame,
      called |-> TRUE ]

PreviewAlwaysComposed(cache, key) == Composed(cache, key, frame_memo[key])

PreviewStep(cache, key) ==
    IF key \notin DOMAIN cache THEN Composed(cache, key, frame_memo[key])
    ELSE [ cache |-> cache, frame |-> cache[key], called |-> FALSE ]

\* The file sample_frames[0].save(gif_path, save_all=True,
\* append_images=sample_frames[1:], duration=frame_duration, loop=0) writes.
SaveGifDroppingFrame(sample_frames, frame_duration) ==
    [ exists |-> TRUE, frames |-> << Head(sample_frames) >> \o Tail(Tail(sample_frames)),
      duration |-> frame_duration, loop |-> 0, complete |-> TRUE ]

SaveGif(sample_frames, frame_duration) ==
    [ exists |-> TRUE, frames |-> << Head(sample_frames) >> \o Tail(sample_frames),
      duration |-> frame_duration, loop |-> 0, complete |-> TRUE ]

\* The file left behind when the write fails after k frames.
PartialGif(file, k) == [file EXCEPT !.frames = SubSeq(@, 1, k), !.complete = FALSE]

NoFile == [exists |-> FALSE, frames |-> << >>, duration |-> 0, loop |-> 0, complete |-> FALSE]

NotShown == [shown |-> FALSE, image |-> NoFile]

\* Where a generate request can fail: composing keyframe n (the first or the last
\* are tried), or writing the GIF after n frames (none, one, all but one are tried).
Faults(num) ==
    {[at |-> "none", n |-> 0]}
        \cup {[at |-> "frame", n |-> i] : i \in {1, num}}
        \cup {[at |-> "write", n |-> k] : k \in {0, 1, num - 1}}

NoFault == [at |-> "none", n |-> 0]

NoRun ==
    [ button |-> "none", outcome |-> "none", total_keyframes |-> 0,
      preview_frame |-> NoRecord, preview_called |-> FALSE,
      displayed |-> NotShown, download |-> NotShown ]

\* Session state as lines 387-390 leave it, the widgets at their defaults.
SessionInit ==
    /\ animation_speed = "Medium"
    /\ day_selection = "All Days (1-8)"
    /\ preview_day = SliderDefault("All Days (1-8)")
    /\ video_generated = FALSE
    /\ video_path = None
    /\ preview_cache = << >>
    /\ gif_file = NoFile
    /\ run = NoRun
    /\ runs = 0

\* The keyframes of a generate request: one frame per sampled day.
SampleFrames(selection, keyframes) ==
    [i \in 1..keyframes |-> frame_memo[day_positions_memo[selection][keyframes][i]]]

\* What the write leaves on disk: the whole file, or its first frames when
\* the write fails.
WrittenFile(written, fault) ==
    IF fault.at = "write" THEN PartialGif(written, fault.n) ELSE written

\* The run from the preview on: preview is what the preview step returned and
\* keyframes the number of keyframes a generate request asks for.
ScriptBody(speed, selection, day, button, fault, preview, keyframes) ==
    LET clicked    == button = "generate"
        saved      == clicked /\ fault.at = "none"
        raised     == clicked /\ fault.at # "none"
        generated  == IF saved THEN TRUE ELSE video_generated
        displays   == ~raised /\ generated
        regenerate == displays /\ button = "regenerate"
    IN  /\ runs < MaxRuns
        /\ runs' = runs + 1
        /\ animation_speed' = speed
        /\ day_selection' = selection
        /\ preview_day' = day
        /\ preview_cache' = preview.cache
        /\ gif_file' = IF clicked /\ fault.at # "frame"
                         THEN WrittenFile(SaveGif(SampleFrames(selection, keyframes),
                                                  duration_map[speed]), fault)
                       ELSE gif_file
        /\ video_generated' = IF regenerate THEN FALSE ELSE generated
        /\ video_path' = IF saved THEN gif_path ELSE video_path
        /\ run' = [ button          |-> button,
                    outcome         |-> IF regenerate THEN "rerun"
                                        ELSE IF ~clicked THEN "none"
                                        ELSE IF fault.at = "none" THEN "ok"
                                        ELSE IF fault.at = "frame" THEN "frame_error"
                                        ELSE "write_error",
                    total_keyframes |-> IF clicked THEN keyframes ELSE 0,
                    preview_frame   |-> preview.frame,
                    preview_called  |-> preview.called,
                    displayed       |-> IF displays THEN [shown |-> TRUE, image |-> gif_file']
                                        ELSE NotShown,
                    download        |-> IF displays THEN [shown |-> TRUE, image |-> gif_file']
                                        ELSE NotShown ]
        /\ UNCHANGED frame_vars

\* One run of the script with the given widget values and button.  The run
\* ends at its last line ("none" without a generate request, "ok" with one),
\* at the exception of a generate request, or at st.rerun() ("rerun"), which
\* the Regenerate button reaches after the animation was displayed and read.
ScriptRun(speed, selection, day, button, fault) ==
    ScriptBody(speed, selection, day, button, fault,
               PreviewStep(preview_cache, day_key(day)),
               total_keyframes(day_range_map[selection][1], day_range_map[selection][2]))

\* st.rerun() has ended the last run: the script runs again at once.
RerunPending == run.outcome = "rerun"

StRerun ==
    /\ RerunPending
    /\ ScriptRun(animation_speed, day_selection, preview_day, "none", NoFault)

\* The user's interactions, each of which triggers one run.
Rerun ==
    /\ ~ RerunPending
    /\ ScriptRun(animation_speed, day_selection, preview_day, "none", NoFault)

ChangeSpeed ==
    /\ ~ RerunPending
    /\ \E speed \in Speeds \ {animation_speed} :
           ScriptRun(speed, day_selection, preview_day, "none", NoFault)

\* A new range makes a new slider, which starts at its default.
ChangeDaySelection ==
    /\ ~ RerunPending
    /\ \E selection \in Selections \ {day_selection} :
           ScriptRun(animation_speed, selection, SliderDefault(selection), "none", NoFault)

ChangePreviewDay ==
    /\ ~ RerunPending
    /\ \E day \in SliderValues(day_selection) \ {preview_day} :
           ScriptRun(animation_speed, day_selection, day, "none", NoFault)

ClickGenerate ==
    /\ ~ RerunPending
    /\ ScriptRun(animation_speed, day_selection, preview_day, "generate", NoFault)

\* The request raises while composing a keyframe or while writing the GIF.
ClickGenerateFails ==
    /\ ~ RerunPending
    /\ \E fault \in Faults(total_keyframes(day_range_map[day_selection][1],
                                           day_range_map[day_selection][2])) \ {NoFault} :
           ScriptRun(animation_speed, day_selection, preview_day, "generate", fault)

\* The button is on the page only if the last run displayed the animation and
\* went on to its last line.
ClickRegenerate ==
    /\ ~ RerunPending
    /\ run.displayed.shown
    /\ ScriptRun(animation_speed, day_selection, preview_day, "regenerate", NoFault)

(***************************************************************************)
(* Specifications.                                                         *)
(***************************************************************************)
\* The script in one session.
Init == FrameIdle /\ SessionInit

Next ==
    \/ StRerun
    \/ Rerun
    \/ ChangeSpeed
    \/ ChangeDaySelection
    \/ ChangePreviewDay
    \/ ClickGenerate
    \/ ClickGenerateFails
    \/ ClickRegenerate

Spec == Init /\ [][Next]_vars

\* The days interpolate_characteristics is tried on: every k / DayGrid from 1
\* to MaxDay, the last double before each whole day, and the days the script
\* asks for.
Days ==
    { FLit[k, DayGrid] : k \in DayGrid..(MaxDay * DayGrid) }
        \cup { FBefore[FInt[k]] : k \in 2..MaxDay }
        \cup ScriptDays

\* interpolate_characteristics on every day, then generate_frame's set-up.
InitInterp ==
    /\ day_float \in Days
    /\ characteristics = NoRecord
    /\ pc = "interpolate"
    /\ reduced_cell_count = 0
    /\ cluster_centers = << >>
    /\ pair_index = 0
    /\ lines_drawn = {}
    /\ CellIdle
    /\ SessionInit

NextInterp == Interpolate \/ FrameSetup

SpecInterp == InitInterp /\ [][NextInterp]_vars

\* The records generate_frame is tried on: each anchor, with cell_clustering and
\* connection set to every k / FieldGrid.
FrameInputs ==
    { [cell_characteristics[d] EXCEPT
          !.cell_clustering = FLit[a, FieldGrid], !.connection = FLit[b, FieldGrid]] :
        d \in DOMAIN cell_characteristics, a \in 0..FieldGrid, b \in 0..FieldGrid }

InitFrame ==
    /\ day_float = NoDay
    /\ characteristics \in FrameInputs
    /\ pc = "setup"
    /\ reduced_cell_count = 0
    /\ cluster_centers = << >>
    /\ pair_index = 0
    /\ lines_drawn = {}
    /\ CellIdle
    /\ SessionInit

NextFrame == FrameSetup \/ DrawConnection

SpecFrame == InitFrame /\ [][NextFrame]_vars

\* The records the cell loop is tried on: each anchor with every cell_count in
\* 0..MaxCellCount, cell_clustering 0 or 1 (two or three centres) and no
\* connection pass; each anchor with sarcomere_organization set to every
\* k / FieldGrid; and the record of every day of the preview slider.
CellInputs ==
    { [cell_characteristics[d] EXCEPT
          !.cell_count = FInt[n], !.cell_clustering = FInt[a], !.connection = FZero] :
        d \in DOMAIN cell_characteristics, n \in 0..MaxCellCount, a \in {0, 1} }
    \cup
    { [cell_characteristics[d] EXCEPT !.sarcomere_organization = FLit[k, FieldGrid]] :
        d \in DOMAIN cell_characteristics, k \in 0..FieldGrid }
    \cup
    { interpolate_characteristics(day) : day \in SliderValues("All Days (1-8)") }

InitCells ==
    /\ day_float = NoDay
    /\ characteristics \in CellInputs
    /\ pc = "setup"
    /\ reduced_cell_count = 0
    /\ cluster_centers = << >>
    /\ pair_index = 0
    /\ lines_drawn = {}
    /\ CellIdle
    /\ SessionInit

NextCells ==
    \/ FrameSetup
    \/ DrawConnection
    \/ SelectCluster
    \/ DrawCell
    \/ DrawSarcomereLine
    \/ DrawNucleus
    \/ DrawDebris

\* generate_frame runs to its end without waiting on anything: a step that
\* can be taken is taken.
SpecCells == InitCells /\ [][NextCells]_vars /\ WF_vars(NextCells)

(***************************************************************************)
(* Properties.                                                             *)
(***************************************************************************)
\* interpolate_characteristics has returned a record for day_float.
Interpolated == pc \in {"setup", "connections", "cells"}

\* generate_frame has computed its counts for the record.
SetUp == pc \in {"connections", "cells"}

\* 1 <= day_float <= 8.
InRange == FLeq[FInt[1], day_float] /\ FLeq[day_float, FInt[LastDay]]

\* x lies between a and b, inclusive, whichever is the larger: doubles, integers.
Between(x, a, b) == (FLeq[a, x] /\ FLeq[x, b]) \/ (FLeq[b, x] /\ FLeq[x, a])

BetweenInt(x, a, b) == (a <= x /\ x <= b) \/ (b <= x /\ x <= a)

\* The anchors for int(day_float) and for min(8, int(day_float) + 1).
FloorAnchor == cell_characteristics[FTrunc[day_float]]

CeilAnchor == cell_characteristics[Min(LastDay, FTrunc[day_float] + 1)]

\* C1: for every day in [1, 8], every numeric field and every colour channel of the
\* interpolated record lies between the values of the two bracketing anchors,
\* inclusive; the colour channels after truncation to an integer.
C1_InterpolationBounded ==
    (Interpolated /\ InRange) =>
        /\ \A key \in NumericKeys :
             Between(characteristics[key], FloorAnchor[key], CeilAnchor[key])
        /\ \A c \in 1..3 :
             BetweenInt(characteristics.color_base[c],
                        FloorAnchor.color_base[c], CeilAnchor.color_base[c])

\* A day strictly between two anchors at which a colour channel was truncated.
C1_Witness ==
    /\ Interpolated /\ InRange
    /\ \E c \in 1..3 :
         /\ ColorValue(FloorAnchor.color_base[c], CeilAnchor.color_base[c],
                       FSub[day_float, FInt[FTrunc[day_float]]])
              # FInt[characteristics.color_base[c]]
         /\ characteristics.color_base[c] # FloorAnchor.color_base[c]
         /\ characteristics.color_base[c] # CeilAnchor.color_base[c]

\* C2: for every day d in [1, 8), shape and title of the interpolated record are
\* those of the anchor of floor(d): the integer f with f <= d < f + 1.
C2_CategoricalFromFloor ==
    (Interpolated /\ InRange /\ FLess[day_float, FInt[LastDay]]) =>
        \E f \in 1..(LastDay - 1) :
            /\ FLeq[FInt[f], day_float]
            /\ FLess[day_float, FInt[f + 1]]
            /\ characteristics.shape = cell_characteristics[f].shape
            /\ characteristics.title = cell_characteristics[f].title

\* A fractional day whose upper anchor has another shape than the one returned.
C2_Witness ==
    /\ Interpolated /\ InRange /\ FLess[day_float, FInt[LastDay]]
    /\ day_float # FInt[FTrunc[day_float]]
    /\ characteristics.shape # CeilAnchor.shape
    /\ characteristics.title # CeilAnchor.title

\* C3: for every day >= 8, 9 and more included, interpolate_characteristics
\* returns the day-8 anchor verbatim, without an error.
C3_ClampedFromDay8 ==
    (pc # "interpolate" /\ FLeq[FInt[LastDay], day_float]) =>
        /\ pc # "raised"
        /\ characteristics = cell_characteristics[LastDay]

\* C4 as stated: the target cell count is min(round(cell_count * 0.8), 15).
C4_ReducedCountRounded ==
    (SetUp /\ InRange) =>
        reduced_cell_count =
            Min(FRoundInt[FMul[characteristics.cell_count, FLit[8, 10]]], MaxCells)

\* C4 amended: the target cell count is cell_count * 0.8 with its fraction dropped
\* (the integer r with r <= cell_count * 0.8 < r + 1), capped at 15.
C4_ReducedCountTruncated ==
    (SetUp /\ InRange) =>
        LET x == FMul[characteristics.cell_count, FLit[8, 10]]
        IN  IF FLeq[FInt[MaxCells], x] THEN reduced_cell_count = MaxCells
            ELSE /\ FLeq[FInt[reduced_cell_count], x]
                 /\ FLess[x, FInt[reduced_cell_count + 1]]

\* A record whose cell_count * 0.8 has a fraction above one half, below the cap.
C4_Witness ==
    /\ SetUp /\ InRange
    /\ reduced_cell_count < MaxCells
    /\ FLess[FLit[1, 2],
             FSub[FMul[characteristics.cell_count, FLit[8, 10]], FInt[reduced_cell_count]]]

\* C5: for every cell_clustering in [0, 1], the extremes included, generate_frame
\* creates 2 or 3 cluster centres.
C5_ClusterCount ==
    SetUp => Len(cluster_centers) \in {2, 3}

\* The set-up has run on a record with cell_clustering 0.0.
C5_Witness ==
    /\ SetUp
    /\ characteristics.cell_clustering = FZero
    /\ Len(cluster_centers) = 2

\* C6: for every record with connection <= 0.4 and every outcome of the draws, no
\* connection line is drawn; a line is drawn only when connection > 0.4.
C6_NoLinesAtOrBelowThreshold ==
    FLeq[characteristics.connection, FLit[4, 10]] => lines_drawn = {}

\* The connection pass is over for a record with connection 0.4.
C6_Witness ==
    /\ pc = "cells"
    /\ characteristics.connection = FLit[4, 10]
    /\ lines_drawn = {}

\* The range the last script run was given, in whole days.
RunMinDay == FTrunc[day_range_map[day_selection][1]]

RunMaxDay == FTrunc[day_range_map[day_selection][2]]

\* round(n / d) for integers n >= 0 and d > 0, a tie going to the even integer.
RoundedQuotient(n, d) ==
    LET q == n \div d
        r == n - q * d
    IN  IF 2 * r < d THEN q
        ELSE IF 2 * r > d THEN q + 1
        ELSE IF q % 2 = 0 THEN q ELSE q + 1

\* C7 as stated: a generate request computes 12 keyframes when max - min <= 2 and
\* round(16 * (max - min) / 7) otherwise.
C7_KeyframesRounded ==
    (run.button = "generate") =>
        run.total_keyframes =
            IF RunMaxDay - RunMinDay <= 2 THEN 12
            ELSE RoundedQuotient(16 * (RunMaxDay - RunMinDay), 7)

\* C7 amended: a generate request computes 12 keyframes when max - min <= 2 and
\* 16 * (max - min) / 7 with its fraction dropped otherwise (the integer k with
\* k <= 16 * (max - min) / 7 < k + 1): (1,8) gives 16, (1,3) and (6,8) give 12,
\* (3,6) gives 6.
C7_KeyframesTruncated ==
    (run.button = "generate") =>
        /\ IF RunMaxDay - RunMinDay <= 2 THEN run.total_keyframes = 12
           ELSE /\ 7 * run.total_keyframes <= 16 * (RunMaxDay - RunMinDay)
                /\ 16 * (RunMaxDay - RunMinDay) < 7 * (run.total_keyframes + 1)
        /\ day_selection = "All Days (1-8)" => run.total_keyframes = 16
        /\ day_selection = "Early (1-3)" => run.total_keyframes = 12
        /\ day_selection = "Middle (3-6)" => run.total_keyframes = 6
        /\ day_selection = "Late (6-8)" => run.total_keyframes = 12

\* A generate request for the range (3, 6), where rounding and truncation differ.
C7_Witness ==
    /\ run.button = "generate"
    /\ day_selection = "Middle (3-6)"
    /\ run.total_keyframes = 6

\* C8: after a generate request that ran to the end, the saved animation holds
\* exactly as many frames as the keyframe count, in increasing order of day sample
\* from the first day of the range to the last, and one frame duration, the one
\* duration_map gives for the chosen speed (500, 250 or 125 ms).
C8_SavedAnimation ==
    (run.button = "generate" /\ run.outcome = "ok") =>
        /\ gif_file.exists /\ gif_file.complete
        /\ Len(gif_file.frames) = run.total_keyframes
        /\ \A i \in 1..(Len(gif_file.frames) - 1) :
             FLess[gif_file.frames[i].time_point, gif_file.frames[i + 1].time_point]
        /\ gif_file.frames[1].time_point = time_point(FInt[RunMinDay])
        /\ gif_file.frames[1].characteristics = cell_characteristics[RunMinDay]
        /\ gif_file.frames[Len(gif_file.frames)].time_point = time_point(FInt[RunMaxDay])
        /\ gif_file.duration = duration_map[animation_speed]
        /\ (animation_speed = "Slow") => gif_file.duration = 500
        /\ (animation_speed = "Medium") => gif_file.duration = 250
        /\ (animation_speed = "Fast") => gif_file.duration = 125

\* A generate request at another speed than the default has saved its animation.
C8_Witness ==
    /\ run.button = "generate" /\ run.outcome = "ok"
    /\ animation_speed = "Fast"
    /\ Len(gif_file.frames) = 16
    /\ gif_file.duration = 125

\* C9: whenever video_generated is true the file at video_path is the complete
\* output of a generate request that ran to the end, and what a run displays or
\* offers for download is never a partly written file.
C9_OnlyCompleteExposed ==
    /\ video_generated =>
         (video_path = gif_path /\ gif_file.exists /\ gif_file.complete)
    /\ run.displayed.shown => run.displayed.image.complete
    /\ run.download.shown => run.download.image.complete

\* C10: an entry of preview_cache is never removed or replaced, and a preview
\* request for a key already stored shows the stored frame without calling
\* generate_frame.
C10_PreviewCacheStable ==
    [][ /\ \A k \in DOMAIN preview_cache :
             k \in DOMAIN preview_cache' /\ preview_cache'[k] = preview_cache[k]
        /\ day_key(preview_day') \in DOMAIN preview_cache =>
             /\ run'.preview_frame = preview_cache[day_key(preview_day')]
             /\ ~run'.preview_called ]_vars

\* A regenerate request has been served its preview from the cache.
C10_Witness ==
    /\ run.button = "regenerate"
    /\ ~run.preview_called
    /\ day_key(preview_day) \in DOMAIN preview_cache
    /\ run.preview_frame = preview_cache[day_key(preview_day)]

\* The while loop of the cell distribution has been left.
LoopLeft == pc = "done"

\* The counters of the cell loop: never more cells than the target, batches of
\* at most 5, never more iterations of the for loop than the batch holds, and
\* every batch begun holds a cell, so that there are no more batches than cells.
CellCountersBounded ==
    /\ cells_drawn <= reduced_cell_count
    /\ cells_in_cluster <= MaxBatch
    /\ batch_index <= cells_in_cluster
    /\ pc \in {"cell", "sarcomere", "nucleus"} => batch_index < cells_in_cluster
    /\ pc = "cells" => batches <= cells_drawn
    /\ LoopLeft => cells_drawn = reduced_cell_count
    /\ LoopLeft /\ reduced_cell_count = 0 => batches = 0 /\ cell = NoCell

\* C11: for every target count in 0..15, two or three centres and every outcome
\* of the draws (fragments included), the cell loop is left, with cells_drawn
\* equal to the target and never above it on the way, in batches of at most 5
\* cells, and without an iteration when the target is 0.
C11_CellLoopTerminates == [] CellCountersBounded /\ <> LoopLeft

\* A frame of 15 cells on 2 centres is complete after 3 batches of 5 cells, the
\* third on a centre chosen at random, its last cell drawn as fragments.
C11_Witness ==
    /\ LoopLeft
    /\ reduced_cell_count = MaxCells
    /\ cells_drawn = MaxCells
    /\ Len(cluster_centers) = MinClusters
    /\ clusters_used = MinClusters
    /\ batches = 3
    /\ cluster = 1
    /\ cell.kind = "fragments"

\* The value of sarcomere_organization is above, or below, the literal num / den.
SarcomereAbove(num, den) == FLess[FLit[num, den], characteristics.sarcomere_organization]

SarcomereBelow(num, den) == FLess[characteristics.sarcomere_organization, FLit[num, den]]

\* A cell body has been drawn and its sarcomere loop, if any, is over.
BodyFinished == cell.kind = "body" /\ pc \in {"nucleus", "cell", "cells", "done"}

\* Which cells get sarcomere lines, and how many: 3 lines on every body drawn
\* with sarcomere_organization > 0.3, none on a body at or below 0.3, none
\* with fragments; a line is continuous or broken, and it is broken only
\* below 0.5.
SarcomereLinesCounted ==
    /\ cell.lines <= num_lines
    /\ BodyFinished /\ SarcomereAbove(3, 10) => cell.lines = num_lines
    /\ cell.kind # "none" /\ ~ SarcomereAbove(3, 10) =>
           cell.lines = 0 /\ cell.line = NoLine /\ pc # "sarcomere"
    /\ cell.kind = "fragments" => cell.lines = 0 /\ cell.line = NoLine
    /\ cell.lines > 0 => cell.kind = "body" /\ cell.line.form \in {"continuous", "broken"}
    /\ cell.lines = 0 => cell.line = NoLine
    /\ cell.line.form = "broken" => SarcomereBelow(5, 10)
    /\ cell.line.form = "continuous" => cell.line.segments = {}

\* C12 as stated: 3 lines on every body above 0.3, none at or below 0.3, a
\* line broken only below 0.5, and a broken line drawn as exactly 2 segments.
C12_BrokenLineHasTwoSegments ==
    /\ SarcomereLinesCounted
    /\ cell.line.form = "broken" => Cardinality(cell.line.segments) = segments

\* C12, amended: 3 lines on every body above 0.3, none at or below 0.3, a line
\* broken only below 0.5, and a broken line drawn as at most 2 segments, each
\* of the 2 halves being drawn or left out on a draw of its own.
C12_BrokenLineHasAtMostTwoSegments ==
    /\ SarcomereLinesCounted
    /\ cell.line.form = "broken" =>
           /\ cell.line.segments \subseteq 0..(segments - 1)
           /\ Cardinality(cell.line.segments) <= segments

\* The third line of a body at 0.4 is broken, and only its second half is drawn.
C12_Witness ==
    /\ pc = "nucleus"
    /\ cell.kind = "body"
    /\ cell.lines = num_lines
    /\ SarcomereAbove(3, 10)
    /\ SarcomereBelow(5, 10)
    /\ cell.line = [form |-> "broken", segments |-> {1}]

====
